---- MODULE Spec2Model ----
(***************************************************************************)
(* Model of the caption-generation subsystem of INSTALITENEW:              *)
(*   - the OpenAI-based CaptionService (server/src/database.ts 113-512):   *)
(*     the sliding-window limiter, the path-based and the buffer-based     *)
(*     request handlers, the caption parsing and the demo fallback sets;   *)
(*   - the Hugging Face CaptionService with isValidPath                    *)
(*     (server/src/database.ts 525-583) and its earlier variant without    *)
(*     the path check (unnamed/part_001);                                  *)
(*   - the caption parsing of the handlers, applied to one provider text;  *)
(*   - POST /generate-caption (server/src/routes/posts.ts 12-87);          *)
(*   - the posts router on the tables posts, likes and comments            *)
(*     (server/src/routes/posts.ts 48-63 and 89-174);                      *)
(*   - the users router (server/dist/routes/users.js 11-32);               *)
(*   - the CreatePost dialog (client/src/components/CreatePost.tsx).       *)
(* Strings are sequences of one-character strings, so that split, trim,    *)
(* startsWith and path.resolve are computed character by character.  An    *)
(* emoji of the source is written as the single character "*".             *)
(***************************************************************************)
EXTENDS Integers, Sequences, FiniteSets, TLC

VARIABLES
  apiKey,               \* process.env.OPENAI_API_KEY as the constructor read it
  isEnabled,            \* CaptionService.isEnabled (openai is non-null exactly then)
  maxRequestsPerMinute, \* rateLimitConfig.maxRequestsPerMinute
  maxRequestsPerHour,   \* rateLimitConfig.maxRequestsPerHour
  requestTimestamps,    \* rateLimitState.requestTimestamps
  now,                  \* Date.now(), in milliseconds since the service was built
  clockSteps,           \* how often the clock has advanced
  req,                  \* per request slot: where the async handler is suspended
  lastResult,           \* observer: the CaptionResponse the last step returned, if any
  admitTimes,           \* history: the times at which checkRateLimit returned true
  providerCalls,        \* history: calls of openai.chat.completions.create
  recorded,             \* history: calls of recordRequest
  lastCaller,           \* history: the caller the last service request was made for
  callerAdmits,         \* history: caller and time of each admission of the last hour
  hfInput,              \* Hugging Face service: the imagePath its callers pass
  hfPc,                 \* Hugging Face service: "idle" or "calling" (awaiting imageToText)
  hfReq,                \* Hugging Face service: the request being served
  hfResult,             \* Hugging Face service: outcome of the last generateCaption
  rawText,              \* normalizer: message.content as the provider returned it
  parsed,               \* normalizer: the captions of each parsing of rawText so far
  reparsed,             \* normalizer: the captions parsed from the joined last output
  hfToken,              \* HF_TOKEN, from process.env.HUGGINGFACE_API_KEY
  routeHits,            \* captionRateLimiter: hits per client key in the current window
  routePc,              \* POST /generate-caption: "idle" or "awaiting" generateCaption
  httpResponse,         \* POST /generate-caption: status and body of the last response
  lastUser,             \* history: the user who sent the last request to the endpoint
  userHits,             \* history: requests each user has sent to the endpoint
  posts,                \* table posts: rows [id, user_id]
  postSeq,              \* table posts: the last id AUTOINCREMENT has given
  likes,                \* table likes: rows [user_id, post_id], in insertion order
  comments,             \* table comments: rows [user_id, post_id], in insertion order
  postReq,              \* posts router: per slot, the handler waiting for the database
  postResponse,         \* posts router: the response the last step sent, if any
  likeDone,             \* history: done like requests per user and post, modulo 2
  deletedOk,            \* history: post ids answered 'Post deleted successfully'
  users,                \* table users: rows [id, username], in insertion order
  usersReq,             \* users router: the handler waiting for the database
  usersResponse,        \* users router: the response the last step sent, if any
  image,                \* CreatePost: state image, the selected file or null
  isGeneratingCaption,  \* CreatePost: state isGeneratingCaption
  captionError,         \* CreatePost: state captionError
  captionField,         \* CreatePost: state caption, shown in the textarea
  inFlight              \* CreatePost: the images of the caption requests not yet settled

vars ==
  << apiKey, isEnabled, maxRequestsPerMinute, maxRequestsPerHour, requestTimestamps,
     now, clockSteps, req, lastResult, admitTimes, providerCalls, recorded,
     lastCaller, callerAdmits,
     hfInput, hfPc, hfReq, hfResult, rawText, parsed, reparsed,
     hfToken, routeHits, routePc, httpResponse, lastUser, userHits,
     posts, postSeq, likes, comments, postReq, postResponse, likeDone, deletedOk,
     users, usersReq, usersResponse,
     image, isGeneratingCaption, captionError, captionField, inFlight >>

serviceVars ==
  << apiKey, isEnabled, maxRequestsPerMinute, maxRequestsPerHour, requestTimestamps,
     now, clockSteps, req, admitTimes, providerCalls, recorded,
     lastCaller, callerAdmits >>

configVars == << apiKey, isEnabled, maxRequestsPerMinute, maxRequestsPerHour >>

hfVars == << hfInput, hfPc, hfReq, hfResult >>

normVars == << rawText, parsed, reparsed >>

dbVars == << posts, postSeq, likes, comments, postReq, postResponse, likeDone, deletedOk >>

usersRouterVars == << users, usersReq, usersResponse >>

dialogVars == << image, isGeneratingCaption, captionError, captionField, inFlight >>

\* the posts router, the users router and the CreatePost dialog
appVars == << dbVars, usersRouterVars, dialogVars >>

routeVars ==
  << hfToken, routeHits, routePc, httpResponse, lastUser, userHits, appVars >>

callerVars == << lastCaller, callerAdmits >>

userVars == << lastUser, userHits >>

\* the caption services and the caption endpoint
captionVars ==
  << serviceVars, lastResult, hfVars, normVars,
     hfToken, routeHits, routePc, httpResponse, lastUser, userHits >>

-----------------------------------------------------------------------------
(* Bounds of the model.                                                    *)

MaxPerMinute == 2    \* maxRequestsPerMinute ranges over 1..MaxPerMinute
MaxClockSteps == 2   \* clock advances per behaviour
MaxAdmitted == 3     \* requests the limiter admits per behaviour
NumSlots == 2        \* requests that can be in flight at once
MaxTextLen == 1      \* length of the enumerated provider texts
MaxPathLen == 3      \* segments of an enumerated path
MaxRawLen == 5       \* length of the enumerated raw texts of the normalizer
MaxParses == 2       \* parsings of one raw text per behaviour
NumClients == 2      \* client keys of the endpoint's rate limiter
MaxPosts == 1        \* posts created per behaviour
MaxComments == 1     \* rows of the table comments
MaxInFlight == 2     \* caption requests of the dialog in flight at once
NumFiles == 3        \* files the user of the dialog can pick

Slots == 1..NumSlots

RECURSIVE SeqsUpTo(_, _)
\* all sequences over S of length at most n
SeqsUpTo(S, n) ==
  IF n = 0 THEN { <<>> }
  ELSE LET shorter == SeqsUpTo(S, n - 1)
       IN  shorter \cup { Append(s, c) : s \in shorter, c \in S }

-----------------------------------------------------------------------------
(* Strings: String.prototype.trim and split('\n').                         *)

WhiteSpace == { " ", "\t", "\r", "\n" }

RECURSIVE TrimStart(_)
TrimStart(s) ==
  IF s # <<>> /\ Head(s) \in WhiteSpace THEN TrimStart(Tail(s)) ELSE s

RECURSIVE TrimEnd(_)
TrimEnd(s) ==
  IF s # <<>> /\ s[Len(s)] \in WhiteSpace THEN TrimEnd(SubSeq(s, 1, Len(s) - 1)) ELSE s

Trim(s) == TrimEnd(TrimStart(s))

\* index of the first occurrence of character c in s, 0 when there is none
IndexOf(s, c) ==
  IF \E i \in 1..Len(s) : s[i] = c
  THEN CHOOSE i \in 1..Len(s) : s[i] = c /\ \A j \in 1..(i - 1) : s[j] # c
  ELSE 0

RECURSIVE Split(_, _)
\* s.split(c): the pieces between the occurrences of c, empty pieces included
Split(s, c) ==
  LET i == IndexOf(s, c)
  IN  IF i = 0 THEN << s >>
      ELSE << SubSeq(s, 1, i - 1) >> \o Split(SubSeq(s, i + 1, Len(s)), c)

MapTrim(lines) == [ i \in 1..Len(lines) |-> Trim(lines[i]) ]

NonEmpty(s) == Len(s) > 0

-----------------------------------------------------------------------------
(* The fallback caption sets and the filler caption.                       *)

DemoSet1 ==
  << <<"*"," ","B","e","a","u","t","i","f","u","l"," ","m","o","m","e","n","t","s"," ","c","a","p","t","u","r","e","d"," ","i","n"," ","t","i","m","e">>,
     <<"*"," ","E","m","b","r","a","c","i","n","g"," ","t","h","e"," ","b","e","a","u","t","y"," ","o","f"," ","n","a","t","u","r","e">>,
     <<"*"," ","E","v","e","r","y"," ","p","i","c","t","u","r","e"," ","t","e","l","l","s"," ","a"," ","s","t","o","r","y">> >>
DemoSet2 ==
  << <<"*"," ","C","a","p","t","u","r","i","n","g"," ","l","i","f","e","'","s"," ","p","r","e","c","i","o","u","s"," ","m","o","m","e","n","t","s">>,
     <<"*"," ","M","a","k","i","n","g"," ","m","e","m","o","r","i","e","s"," ","o","n","e"," ","s","h","o","t"," ","a","t"," ","a"," ","t","i","m","e">>,
     <<"*"," ","A","r","t"," ","i","n"," ","e","v","e","r","y","d","a","y"," ","m","o","m","e","n","t","s">> >>
DemoSet3 ==
  << <<"*"," ","C","o","l","o","r","s"," ","o","f"," ","l","i","f","e"," ","i","n"," ","e","v","e","r","y"," ","f","r","a","m","e">>,
     <<"*"," ","S","h","i","n","i","n","g"," ","b","r","i","g","h","t"," ","i","n"," ","t","h","e"," ","m","o","m","e","n","t">>,
     <<"*"," ","M","o","m","e","n","t","s"," ","t","h","a","t"," ","m","a","k","e"," ","l","i","f","e"," ","b","e","a","u","t","i","f","u","l">> >>
DemoSet4 ==
  << <<"*"," ","F","o","c","u","s","e","d"," ","o","n"," ","w","h","a","t"," ","m","a","t","t","e","r","s"," ","m","o","s","t">>,
     <<"*"," ","B","l","o","o","m","i","n","g"," ","w","h","e","r","e"," ","I","'","m"," ","p","l","a","n","t","e","d">>,
     <<"*"," ","C","r","e","a","t","i","n","g"," ","m","y"," ","o","w","n"," ","s","u","n","s","h","i","n","e">> >>
DemoSet5 ==
  << <<"*"," ","P","i","c","t","u","r","e"," ","p","e","r","f","e","c","t"," ","m","o","m","e","n","t","s">>,
     <<"*"," ","L","i","f","e"," ","i","s"," ","a"," ","b","e","a","u","t","i","f","u","l"," ","a","d","v","e","n","t","u","r","e">>,
     <<"*"," ","F","i","n","d","i","n","g"," ","j","o","y"," ","i","n"," ","t","h","e"," ","l","i","t","t","l","e"," ","t","h","i","n","g","s">> >>
Filler ==
  <<"C","a","p","t","u","r","i","n","g"," ","m","o","m","e","n","t","s"," ","t","h","a","t"," ","m","a","t","t","e","r"," ","*">>

demoSets == << DemoSet1, DemoSet2, DemoSet3, DemoSet4, DemoSet5 >>

\* a getDemoCaptions that returns the first set whatever Math.random() gives
getDemoCaptionsFirst(i) == demoSets[1]

\* getDemoCaptions with Math.floor(Math.random() * demoSets.length) = i - 1
getDemoCaptions(i) == demoSets[i]

DemoChoices == 1..Len(demoSets)

DemoCaptionSets == { demoSets[i] : i \in DemoChoices }

-----------------------------------------------------------------------------
(* Caption parsing (the same code in both handlers).                       *)

\* no slice: every non-empty line is kept
SliceCaptionsAll(lines) == lines

\* a slice that starts at the second line
SliceCaptionsSkipFirst(lines) ==
  SubSeq(lines, 2, IF Len(lines) < 4 THEN Len(lines) ELSE 4)

SliceCaptions(lines) == SubSeq(lines, 1, IF Len(lines) < 3 THEN Len(lines) ELSE 3)

\* the filler put in front of the captions
PadCaptionsFront(captions) ==
  IF Len(captions) = 0 THEN << Filler, Filler, Filler >>
  ELSE IF Len(captions) = 1 THEN << Filler, Filler >> \o captions
  ELSE IF Len(captions) = 2 THEN << Filler >> \o captions
  ELSE captions

\* if (captions.length < 3) captions.push(filler), without the loop
PadCaptionsOnce(captions) ==
  IF Len(captions) < 3 THEN Append(captions, Filler) ELSE captions

RECURSIVE PadCaptions(_)
\* while (captions.length < 3) captions.push(filler)
PadCaptions(captions) ==
  IF Len(captions) < 3 THEN PadCaptions(Append(captions, Filler)) ELSE captions

ParseCaptions(content) ==
  PadCaptions(SliceCaptions(SelectSeq(MapTrim(Split(content, "\n")), NonEmpty)))

-----------------------------------------------------------------------------
(* Paths: path.resolve and String.prototype.startsWith.                    *)

Slash == "/"

\* process.cwd() of the server
Cwd == << "/", "w" >>

StartsWith(s, prefix) ==
  Len(s) >= Len(prefix) /\ SubSeq(s, 1, Len(prefix)) = prefix

RECURSIVE NormalizeSegments(_, _)
\* walks the segments left to right: "." is dropped, ".." removes the last kept one
NormalizeSegments(segs, kept) ==
  IF segs = <<>> THEN kept
  ELSE LET seg == Head(segs)
       IN  IF seg = << "." >> THEN NormalizeSegments(Tail(segs), kept)
           ELSE IF seg = << ".", "." >>
                THEN NormalizeSegments(Tail(segs),
                       IF kept = <<>> THEN kept ELSE SubSeq(kept, 1, Len(kept) - 1))
                ELSE NormalizeSegments(Tail(segs), Append(kept, seg))

RECURSIVE JoinSegments(_)
JoinSegments(segs) ==
  IF segs = <<>> THEN <<>> ELSE << Slash >> \o Head(segs) \o JoinSegments(Tail(segs))

\* path.resolve(p): absolute, without ".", ".." or empty segments, no trailing slash
PathResolve(p) ==
  LET full   == IF p # <<>> /\ Head(p) = Slash THEN p ELSE Cwd \o << Slash >> \o p
      segs   == SelectSeq(Split(full, Slash), NonEmpty)
      normal == NormalizeSegments(segs, <<>>)
  IN  IF normal = <<>> THEN << Slash >> ELSE JoinSegments(normal)

\* UPLOAD_DIR = path.resolve('uploads')
UPLOAD_DIR == PathResolve(<< "u" >>)

isValidPath(filePath) == StartsWith(PathResolve(filePath), UPLOAD_DIR)

\* the resolved path is the upload root or lies below it
UnderUploadRoot(resolved) ==
  resolved = UPLOAD_DIR \/ StartsWith(resolved, UPLOAD_DIR \o << Slash >>)

PathSegments == { << ".", "." >>, << "." >>, << "w" >>, << "u" >>, << "u", "x" >>, << "f" >> }

RECURSIVE JoinRelative(_)
JoinRelative(segs) ==
  IF segs = <<>> THEN <<>>
  ELSE IF Len(segs) = 1 THEN Head(segs)
  ELSE Head(segs) \o << Slash >> \o JoinRelative(Tail(segs))

\* the paths given to the Hugging Face service
PathInputs ==
  { JoinRelative(segs) : segs \in SeqsUpTo(PathSegments, MaxPathLen) }
    \cup { << Slash >> \o JoinRelative(segs) : segs \in SeqsUpTo(PathSegments, MaxPathLen) }

\* the paths given to the OpenAI service: a file in the upload directory, one elsewhere
InsideFile == << "/", "w", "/", "u", "/", "f" >>
OutsideFile == << "/", "w", "/", "f" >>
ServicePaths == { InsideFile, OutsideFile }
\* no path: not a string of characters, so no input path equals it
NoPath == << "<none>" >>

-----------------------------------------------------------------------------
(* The OpenAI-based CaptionService: constructor and limiter.               *)

Undefined == "<undefined>"
ApiKeys == { Undefined, "", "sk-test-key-123456789" }

\* !apiKey
Falsy(v) == v = Undefined \/ v = ""

\* apiKey === undefined in place of !apiKey
ConstructorEnabledUnlessUndefined(key) == key # Undefined

\* the constructor's isEnabled (and openai # null) for the key it read
ConstructorEnabled(key) == ~Falsy(key)

OneMinute == 60 * 1000
OneHour == 60 * 60 * 1000

\* a filter that keeps every timestamp
FilterNothing(ts, t) == ts

\* requestTimestamps.filter(timestamp => timestamp > oneHourAgo)
FilterLastHour(ts, t) == SelectSeq(ts, LAMBDA x : x > t - OneHour)

\* a count that finds no request in the last minute
RequestsInLastMinuteNone(ts, t) == 0

\* a count that takes a timestamp exactly one minute old as of the last minute
RequestsInLastMinuteInclusive(ts, t) == Len(SelectSeq(ts, LAMBDA x : x >= t - OneMinute))

\* requestTimestamps.filter(timestamp => timestamp > oneMinuteAgo).length
RequestsInLastMinute(ts, t) == Len(SelectSeq(ts, LAMBDA x : x > t - OneMinute))

\* a checkRateLimit that pushes the timestamp itself
checkRateLimitStateRecording(ts, t) == Append(FilterLastHour(ts, t), t)

\* what checkRateLimit at time t leaves in requestTimestamps
checkRateLimitState(ts, t) == FilterLastHour(ts, t)

\* a checkRateLimit without the test of the hour limit
checkRateLimitMinuteOnly(ts, t) ==
  RequestsInLastMinute(FilterLastHour(ts, t), t) < maxRequestsPerMinute

\* what checkRateLimit at time t returns
checkRateLimit(ts, t) ==
  LET kept == FilterLastHour(ts, t)
  IN  IF RequestsInLastMinute(kept, t) >= maxRequestsPerMinute THEN FALSE
      ELSE IF Len(kept) >= maxRequestsPerHour THEN FALSE
      ELSE TRUE

\* recordRequest at time t
recordRequest(ts, t) == Append(ts, t)

\* a getRateLimitStatus that reports every retained timestamp as of the last minute
getRateLimitStatusTotals(ts, t) ==
  LET kept == FilterLastHour(ts, t)
  IN  [ requestsInLastMinute |-> Len(kept),
        requestsInLastHour   |-> Len(kept),
        maxRequestsPerMinute |-> maxRequestsPerMinute,
        maxRequestsPerHour   |-> maxRequestsPerHour ]

\* getRateLimitStatus at time t
getRateLimitStatus(ts, t) ==
  LET kept == FilterLastHour(ts, t)
  IN  [ requestsInLastMinute |-> RequestsInLastMinute(kept, t),
        requestsInLastHour   |-> Len(kept),
        maxRequestsPerMinute |-> maxRequestsPerMinute,
        maxRequestsPerHour   |-> maxRequestsPerHour ]

-----------------------------------------------------------------------------
(* The CaptionResponse of each branch of the handlers.                     *)

NoCaptions == <<>>
NoError == ""

NotConfiguredResponse(i) ==
  [ success |-> TRUE, captions |-> getDemoCaptions(i), error |-> NoError ]

\* the limiter's rejection handed to the caller as an error
RateLimitedErrors(i) ==
  [ success |-> FALSE, captions |-> NoCaptions, error |-> "Rate limit exceeded" ]

RateLimitedResponse(i) ==
  [ success |-> TRUE, captions |-> getDemoCaptions(i), error |-> NoError ]

\* the missing file answered like the other failures, with demo captions
FileNotFoundDegrades ==
  [ success |-> TRUE, captions |-> getDemoCaptions(1), error |-> NoError ]

FileNotFoundResponse ==
  [ success |-> FALSE, captions |-> NoCaptions, error |-> "Image file not found" ]

NoContentResponse(i) ==
  [ success |-> TRUE, captions |-> getDemoCaptions(i), error |-> NoError ]

ParsedResponse(content) ==
  [ success |-> TRUE, captions |-> ParseCaptions(content), error |-> NoError ]

\* the API error handed to the caller
ApiErrorPropagates(i) ==
  [ success |-> FALSE, captions |-> NoCaptions, error |-> "OpenAI API Error" ]

ApiErrorResponse(i) ==
  [ success |-> TRUE, captions |-> getDemoCaptions(i), error |-> NoError ]

\* the unexpected error handed to the caller
UnexpectedErrorPropagates(i) ==
  [ success |-> FALSE, captions |-> NoCaptions, error |-> "Failed to generate captions" ]

UnexpectedErrorResponse(i) ==
  [ success |-> TRUE, captions |-> getDemoCaptions(i), error |-> NoError ]

-----------------------------------------------------------------------------
(* What the provider call can produce.                                     *)

ThreeLines == << "a", "\n", "b", "\n", "c" >>
FourLines == << "a", "\n", " ", "\n", "b", " ", "\n", "c", "\n", "d" >>
TextChars == { "a", " ", "\n" }

\* message.content of the first choice, when the call resolves with one
ProviderTexts == SeqsUpTo(TextChars, MaxTextLen) \cup { ThreeLines, FourLines }

ApiErrorStatus == { 400, 401, 429, 500 }

ProviderOutcomes ==
  [ kind : { "content" }, content : ProviderTexts, status : { 0 } ]
    \cup [ kind : { "null" }, content : { <<>> }, status : { 0 } ]      \* content null or no choice
    \cup [ kind : { "apiError" }, content : { <<>> }, status : ApiErrorStatus ]
    \cup [ kind : { "exception" }, content : { <<>> }, status : { 0 } ] \* any other rejection

-----------------------------------------------------------------------------
(* Requests.                                                               *)

IdleReq == [ pc |-> "idle", kind |-> "none", path |-> NoPath ]

NoResponse == [ success |-> FALSE, captions |-> NoCaptions, error |-> NoError ]

NoResult == [ kind |-> "none", fileExists |-> FALSE, cause |-> "none", response |-> NoResponse ]

\* a returned CaptionResponse with the request it answers: the handler, whether the
\* file existed when the request arrived, and the branch that returned
Result(kind, exists, cause, response) ==
  [ kind |-> kind, fileExists |-> exists, cause |-> cause, response |-> response ]

\* nothing returned: the handler is suspended at an await
Pending == NoResult

Idle(r) == req[r].pc = "idle"

\* the steps of the clock: half a minute, and what then completes an hour
Delays == { OneMinute \div 2, OneHour - OneMinute \div 2 }

\* the configured hour limit is the minute limit or above it
HourLimits(perMinute) == { perMinute, perMinute + 1 }

\* the users of the application, on whose behalf requests are made
Users == { "alice", "bob" }

\* a request that carries no user
NoUser == "<nobody>"

InitService ==
  /\ lastCaller = NoUser
  /\ callerAdmits = <<>>
  /\ apiKey \in ApiKeys
  /\ isEnabled = ConstructorEnabled(apiKey)
  /\ maxRequestsPerMinute \in 1..MaxPerMinute
  /\ maxRequestsPerHour \in HourLimits(maxRequestsPerMinute)
  /\ requestTimestamps = <<>>
  /\ now = 0
  /\ clockSteps = 0
  /\ req = [ r \in Slots |-> IdleReq ]
  /\ lastResult = NoResult
  /\ admitTimes = <<>>
  /\ providerCalls = 0
  /\ recorded = 0

\* time passes between two steps of the handlers
Tick(d) ==
  /\ clockSteps < MaxClockSteps
  /\ clockSteps' = clockSteps + 1
  /\ now' = now + d
  /\ UNCHANGED << configVars, requestTimestamps, req, admitTimes, providerCalls, recorded >>
  /\ UNCHANGED << hfVars, normVars, routeVars >>

\* a request enters a handler, in the first free slot
Start(r) ==
  /\ Idle(r)
  /\ \A q \in 1..(r - 1) : ~Idle(q)
  /\ isEnabled /\ checkRateLimit(requestTimestamps, now) => Len(admitTimes) < MaxAdmitted

\* history: the admissions of the last hour, after a checkRateLimit call at this time
Admissions(admitted) ==
  IF admitted THEN Append(FilterLastHour(admitTimes, now), now)
  ELSE FilterLastHour(admitTimes, now)

\* a generateCaptions that does not ask the limiter
generateCaptionsBranchNoLimiter(exists) ==
  IF ~isEnabled THEN "notConfigured"
  ELSE IF ~exists THEN "fileNotFound"
  ELSE "reading"

\* the branch generateCaptions takes up to its first await
generateCaptionsBranch(exists) ==
  IF ~isEnabled THEN "notConfigured"
  ELSE IF ~checkRateLimit(requestTimestamps, now) THEN "rateLimited"
  ELSE IF ~exists THEN "fileNotFound"
  ELSE "reading"

\* generateCaptions(imagePath), up to its first await or its return: what it does
generateCaptions(r, imagePath, exists) ==
  /\ Start(r)
  /\ IF generateCaptionsBranch(exists) = "notConfigured"
     THEN UNCHANGED << requestTimestamps, admitTimes, req >>
     ELSE /\ requestTimestamps' = checkRateLimitState(requestTimestamps, now)
          /\ admitTimes' = Admissions(checkRateLimit(requestTimestamps, now))
          /\ IF generateCaptionsBranch(exists) = "reading"
             THEN req' = [ req EXCEPT ![r] =
                             [ pc |-> "reading", kind |-> "path", path |-> imagePath ] ]
             ELSE UNCHANGED req
  /\ UNCHANGED << configVars, now, clockSteps, providerCalls, recorded >>
  /\ UNCHANGED << hfVars, normVars, routeVars >>

\* generateCaptions(imagePath), up to its first await or its return: what it can
\* return, one response for each set getDemoCaptions can pick
generateCaptionsReturns(exists) ==
  IF generateCaptionsBranch(exists) = "notConfigured"
  THEN { Result("path", exists, "notConfigured", NotConfiguredResponse(i)) : i \in DemoChoices }
  ELSE IF generateCaptionsBranch(exists) = "rateLimited"
  THEN { Result("path", exists, "rateLimited", RateLimitedResponse(i)) : i \in DemoChoices }
  ELSE IF generateCaptionsBranch(exists) = "fileNotFound"
  THEN { Result("path", exists, "fileNotFound", FileNotFoundResponse) }
  ELSE { Pending }

\* a generateCaptions that records the request before it knows the file was read
ReadFileSettlesRecordsAlways(r, readOk) ==
  /\ req[r].pc = "reading"
  /\ requestTimestamps' = recordRequest(requestTimestamps, now)
  /\ recorded' = recorded + 1
  /\ IF readOk
     THEN /\ providerCalls' = providerCalls + 1
          /\ req' = [ req EXCEPT ![r].pc = "calling" ]
     ELSE /\ req' = [ req EXCEPT ![r] = IdleReq ]
          /\ UNCHANGED providerCalls
  /\ UNCHANGED << configVars, now, clockSteps, admitTimes >>
  /\ UNCHANGED << hfVars, normVars, routeVars >>

\* generateCaptions after await encodeImageToBase64: recordRequest and the provider
\* call, or the catch block when readFile rejected
ReadFileSettles(r, readOk) ==
  /\ req[r].pc = "reading"
  /\ IF readOk
     THEN /\ requestTimestamps' = recordRequest(requestTimestamps, now)
          /\ recorded' = recorded + 1
          /\ providerCalls' = providerCalls + 1
          /\ req' = [ req EXCEPT ![r].pc = "calling" ]
     ELSE /\ req' = [ req EXCEPT ![r] = IdleReq ]
          /\ UNCHANGED << requestTimestamps, recorded, providerCalls >>
  /\ UNCHANGED << configVars, now, clockSteps, admitTimes >>
  /\ UNCHANGED << hfVars, normVars, routeVars >>

ReadFileSettlesReturns(readOk) ==
  IF readOk THEN { Pending }
  ELSE { Result("path", TRUE, "readError", UnexpectedErrorResponse(i)) : i \in DemoChoices }

\* the branch generateCaptionsFromBuffer takes up to its first await
generateCaptionsFromBufferBranch ==
  IF ~isEnabled THEN "notConfigured"
  ELSE IF ~checkRateLimit(requestTimestamps, now) THEN "rateLimited"
  ELSE "calling"

\* generateCaptionsFromBuffer(imageBuffer, mimeType), up to its first await or its
\* return: what it does
generateCaptionsFromBuffer(r) ==
  /\ Start(r)
  /\ IF generateCaptionsFromBufferBranch = "notConfigured"
     THEN UNCHANGED << requestTimestamps, admitTimes, req, recorded, providerCalls >>
     ELSE IF generateCaptionsFromBufferBranch = "rateLimited"
     THEN /\ requestTimestamps' = checkRateLimitState(requestTimestamps, now)
          /\ admitTimes' = Admissions(FALSE)
          /\ UNCHANGED << req, recorded, providerCalls >>
     ELSE /\ requestTimestamps' =
               recordRequest(checkRateLimitState(requestTimestamps, now), now)
          /\ admitTimes' = Admissions(TRUE)
          /\ recorded' = recorded + 1
          /\ providerCalls' = providerCalls + 1
          /\ req' = [ req EXCEPT ![r] =
                        [ pc |-> "calling", kind |-> "buffer", path |-> NoPath ] ]
  /\ UNCHANGED << configVars, now, clockSteps >>
  /\ UNCHANGED << hfVars, normVars, routeVars >>

generateCaptionsFromBufferReturns ==
  IF generateCaptionsFromBufferBranch = "notConfigured"
  THEN { Result("buffer", TRUE, "notConfigured", NotConfiguredResponse(i)) : i \in DemoChoices }
  ELSE IF generateCaptionsFromBufferBranch = "rateLimited"
  THEN { Result("buffer", TRUE, "rateLimited", RateLimitedResponse(i)) : i \in DemoChoices }
  ELSE { Pending }

\* the branch of either handler that answers the settled provider call
ProviderBranch(outcome) ==
  IF outcome.kind = "content"
  THEN IF outcome.content = <<>> THEN "noContent" ELSE "parsed"   \* !content
  ELSE IF outcome.kind = "null" THEN "noContent"
  ELSE IF outcome.kind = "apiError" THEN "apiError"
  ELSE "exception"

\* a handler that calls the provider a second time when the first call has settled
ProviderSettlesRetries(r) ==
  /\ req[r].pc = "calling"
  /\ IF providerCalls = recorded
     THEN providerCalls' = providerCalls + 1 /\ UNCHANGED req
     ELSE req' = [ req EXCEPT ![r] = IdleReq ] /\ UNCHANGED providerCalls
  /\ UNCHANGED << configVars, requestTimestamps, now, clockSteps, admitTimes, recorded >>
  /\ UNCHANGED << hfVars, normVars, routeVars >>

\* either handler after await openai.chat.completions.create: what it does
ProviderSettles(r) ==
  /\ req[r].pc = "calling"
  /\ req' = [ req EXCEPT ![r] = IdleReq ]
  /\ UNCHANGED << configVars, requestTimestamps, now, clockSteps, admitTimes,
                  providerCalls, recorded >>
  /\ UNCHANGED << hfVars, normVars, routeVars >>

\* either handler after await openai.chat.completions.create: what it returns
ProviderSettlesReturns(r, outcome) ==
  IF ProviderBranch(outcome) = "parsed"
  THEN { Result(req[r].kind, TRUE, "parsed", ParsedResponse(outcome.content)) }
  ELSE IF ProviderBranch(outcome) = "noContent"
  THEN { Result(req[r].kind, TRUE, "noContent", NoContentResponse(i)) : i \in DemoChoices }
  ELSE IF ProviderBranch(outcome) = "apiError"
  THEN { Result(req[r].kind, TRUE, "apiError", ApiErrorResponse(i)) : i \in DemoChoices }
  ELSE { Result(req[r].kind, TRUE, "exception", UnexpectedErrorResponse(i)) : i \in DemoChoices }

\* a call of getRateLimitStatus, which returns getRateLimitStatus(requestTimestamps, now)
RateLimitStatus ==
  /\ requestTimestamps' = FilterLastHour(requestTimestamps, now)
  /\ UNCHANGED << configVars, now, clockSteps, req, admitTimes, providerCalls, recorded >>
  /\ UNCHANGED << hfVars, normVars, routeVars >>

\* the observer sees the response the step returns, one of those it can return
Observe(results) == lastResult' \in results /\ UNCHANGED callerVars

\* a step that returns no response
Silent == lastResult' = Pending /\ UNCHANGED callerVars

\* what getRateLimitStatus returned, as the observer sees it
StatusResult(status) ==
  [ kind |-> "status", fileExists |-> TRUE, cause |-> "status", response |-> NoResponse,
    status |-> status ]

\* the observer sees the object the getRateLimitStatus call of the step returns
ObserveStatus ==
  /\ lastResult' = StatusResult(getRateLimitStatus(requestTimestamps, now))
  /\ UNCHANGED callerVars

AllIdle == \A r \in Slots : Idle(r)

\* history: the request of the step is made for caller u; callerAdmits keeps the
\* admissions of the last hour, each with the caller it was made for
MadeFor(u, admitted) ==
  /\ lastCaller' = u
  /\ callerAdmits' =
       LET kept == SelectSeq(callerAdmits, LAMBDA a : a.time > now - OneHour)
       IN  IF admitted THEN Append(kept, [ caller |-> u, time |-> now ]) ELSE kept

-----------------------------------------------------------------------------
(* The Hugging Face CaptionService: generateCaption with isValidPath, and   *)
(* the earlier generateCaption without it.                                  *)

NoHfReq == [ variant |-> "none", path |-> NoPath, validation |-> "none" ]

NoHfResult ==
  [ variant |-> "none", path |-> NoPath, validation |-> "none", accessed |-> NoPath,
    outcome |-> "none", caption |-> <<>> ]

\* a settled generateCaption: the caption it resolved with, or the Error it rejected with
HfResult(variant, p, validation, accessed, outcome, caption) ==
  [ variant |-> variant, path |-> p, validation |-> validation, accessed |-> accessed,
    outcome |-> outcome, caption |-> caption ]

UnableToGenerate ==
  << "U","n","a","b","l","e"," ","t","o"," ","g","e","n","e","r","a","t","e"," ",
     "c","a","p","t","i","o","n" >>

\* result.generated_text || 'Unable to generate caption'
CaptionOrDefault(text) == IF text = <<>> THEN UnableToGenerate ELSE text

HfTexts == SeqsUpTo({ "a", " " }, MaxTextLen)

HfOutcomes ==
  [ kind : { "text" }, text : HfTexts ] \cup [ kind : { "rejected" }, text : { <<>> } ]

InitHf ==
  /\ hfInput = NoPath
  /\ hfPc = "idle"
  /\ hfReq = NoHfReq
  /\ hfResult = NoHfResult

\* generateCaption(imagePath) of database.ts, up to its await or its throw
generateCaption(p, exists, readable) ==
  /\ hfPc = "idle"
  /\ IF ~isValidPath(p)
     THEN /\ hfResult' = HfResult("checked", p, "rejected", NoPath, "error", <<>>)
          /\ UNCHANGED << hfPc, hfReq >>
     ELSE IF ~exists \/ ~readable
     THEN /\ hfResult' = HfResult("checked", p, "accepted", p, "error", <<>>)
          /\ UNCHANGED << hfPc, hfReq >>
     ELSE /\ hfPc' = "calling"
          /\ hfReq' = [ variant |-> "checked", path |-> p, validation |-> "accepted" ]
          /\ hfResult' = NoHfResult
  /\ UNCHANGED << hfInput, lastResult >>
  /\ UNCHANGED << serviceVars, normVars >>

\* generateCaption(imagePath) of the earlier variant, up to its await or its throw
generateCaptionUnchecked(p, readable) ==
  /\ hfPc = "idle"
  /\ IF ~readable
     THEN /\ hfResult' = HfResult("unchecked", p, "none", p, "error", <<>>)
          /\ UNCHANGED << hfPc, hfReq >>
     ELSE /\ hfPc' = "calling"
          /\ hfReq' = [ variant |-> "unchecked", path |-> p, validation |-> "none" ]
          /\ hfResult' = NoHfResult
  /\ UNCHANGED << hfInput, lastResult >>
  /\ UNCHANGED << serviceVars, normVars >>

\* either variant after await hf.imageToText
ImageToTextSettles(outcome) ==
  /\ hfPc = "calling"
  /\ hfPc' = "idle"
  /\ hfReq' = NoHfReq
  /\ hfResult' =
       IF outcome.kind = "text"
       THEN HfResult(hfReq.variant, hfReq.path, hfReq.validation, hfReq.path, "caption",
                     CaptionOrDefault(outcome.text))
       ELSE HfResult(hfReq.variant, hfReq.path, hfReq.validation, hfReq.path, "error", <<>>)
  /\ UNCHANGED << hfInput, lastResult >>
  /\ UNCHANGED << serviceVars, normVars >>

-----------------------------------------------------------------------------
(* The caption parsing of the handlers, applied to one provider text.      *)

RECURSIVE JoinLines(_)
\* captions.join('\n')
JoinLines(captions) ==
  IF captions = <<>> THEN <<>>
  ELSE IF Len(captions) = 1 THEN captions[1]
  ELSE captions[1] \o << "\n" >> \o JoinLines(Tail(captions))

OnlyOneCaption ==
  << "O","n","l","y"," ","o","n","e"," ","c","a","p","t","i","o","n" >>

RawChars == { "a", "b", " ", "\n" }

\* the texts that reach the parsing: content is truthy, so it is not empty
RawTexts ==
  (SeqsUpTo(RawChars, MaxRawLen) \cup { OnlyOneCaption, ThreeLines, FourLines }) \ { <<>> }

NoNormalizer ==
  /\ rawText = <<>>
  /\ parsed = <<>>
  /\ reparsed = <<>>

InitNormalizer ==
  /\ rawText \in RawTexts
  /\ parsed = <<>>
  /\ reparsed = <<>>

\* the parsing of generateCaptions / generateCaptionsFromBuffer applied to rawText
NormalizeText ==
  /\ Len(parsed) < MaxParses
  /\ parsed' = Append(parsed, ParseCaptions(rawText))
  /\ UNCHANGED << rawText, reparsed >>
  /\ UNCHANGED << serviceVars, lastResult, hfVars, routeVars >>

\* the same parsing applied to the last output, joined by newlines
NormalizeOutput ==
  /\ parsed # <<>>
  /\ reparsed = <<>>
  /\ reparsed' = ParseCaptions(JoinLines(parsed[Len(parsed)]))
  /\ UNCHANGED << rawText, parsed >>
  /\ UNCHANGED << serviceVars, lastResult, hfVars, routeVars >>

-----------------------------------------------------------------------------
(* The posts router on the tables posts, likes and comments.  The handlers   *)
(* hand their statements to the sqlite3 connection and go on in the          *)
(* callbacks; statements of different handlers interleave.  The connection   *)
(* is opened without PRAGMA foreign_keys, so no FOREIGN KEY clause of the    *)
(* tables is enforced.  Every request here has passed authenticate.          *)

PostIds == 1..MaxPosts

NoPost == 0

NoPostReq ==
  [ route |-> "none", user |-> NoUser, post |-> NoPost, pc |-> "idle", liked |-> FALSE ]

\* a handler of the posts router, waiting for the statement named by pc
PostReq(route, u, p, pc, liked) ==
  [ route |-> route, user |-> u, post |-> p, pc |-> pc, liked |-> liked ]

NoPostResponse ==
  [ route |-> "none", user |-> NoUser, post |-> NoPost, status |-> 0, body |-> "none" ]

\* a response of the posts router, with the request it answers
PostResponse(route, u, p, status, body) ==
  [ route |-> route, user |-> u, post |-> p, status |-> status, body |-> body ]

\* the tables after initializeTables, and no request
NoPosts ==
  /\ posts = {}
  /\ postSeq = 0
  /\ likes = <<>>
  /\ comments = <<>>
  /\ postReq = [ r \in Slots |-> NoPostReq ]
  /\ postResponse = NoPostResponse
  /\ likeDone = [ u \in Users |-> [ p \in PostIds |-> 0 ] ]
  /\ deletedOk = {}

\* SELECT * FROM posts WHERE id = ?, whatever the owner
PostExists(p, u) == \E row \in posts : row.id = p

\* SELECT * FROM posts WHERE id = ? AND user_id = ?
PostOwnedBy(p, u) == \E row \in posts : row.id = p /\ row.user_id = u

\* SELECT * FROM likes WHERE user_id = ? AND post_id = ?
LikeFound(u, p) == \E k \in 1..Len(likes) : likes[k] = [ user_id |-> u, post_id |-> p ]

\* INSERT INTO likes (user_id, post_id): UNIQUE(user_id, post_id) makes the statement
\* fail when the row is there, and db.run has no callback that would see the error
InsertLike(u, p) ==
  IF LikeFound(u, p) THEN likes ELSE Append(likes, [ user_id |-> u, post_id |-> p ])

\* DELETE FROM likes WHERE user_id = ? AND post_id = ?
DeleteLike(u, p) == SelectSeq(likes, LAMBDA row : ~(row.user_id = u /\ row.post_id = p))

\* the handlers of a route that wait for the database
InFlightFor(route, u, p) ==
  { r \in Slots : postReq[r].route = route /\ postReq[r].user = u /\ postReq[r].post = p }

\* a request takes the first free slot
FreeSlot(r) ==
  /\ postReq[r].pc = "idle"
  /\ \A q \in 1..(r - 1) : postReq[q].pc # "idle"

\* POST /: INSERT INTO posts, answered 201 in the callback
CreatePostRow(u) ==
  /\ postSeq < MaxPosts
  /\ postSeq' = postSeq + 1
  /\ posts' = posts \cup { [ id |-> postSeq + 1, user_id |-> u ] }
  /\ postResponse' = PostResponse("create", u, postSeq + 1, 201, "created")
  /\ UNCHANGED << likes, comments, postReq, likeDone, deletedOk >>
  /\ UNCHANGED << captionVars, usersRouterVars, dialogVars >>

\* POST /:id/like, up to db.get
LikeRequest(r, u, p) ==
  /\ FreeSlot(r)
  /\ postReq' = [ postReq EXCEPT ![r] = PostReq("like", u, p, "get", FALSE) ]
  /\ postResponse' = NoPostResponse
  /\ UNCHANGED << posts, postSeq, likes, comments, likeDone, deletedOk >>
  /\ UNCHANGED << captionVars, usersRouterVars, dialogVars >>

\* POST /:id/like, the callback of db.get: db.run is handed the DELETE or the INSERT
\* and the response is sent
LikeGet(r) ==
  /\ postReq[r].route = "like"
  /\ postReq[r].pc = "get"
  /\ LET u == postReq[r].user
         p == postReq[r].post
     IN  /\ postReq' = [ postReq EXCEPT ![r] = PostReq("like", u, p, "run", ~LikeFound(u, p)) ]
         /\ postResponse' =
              PostResponse("like", u, p, 200, IF LikeFound(u, p) THEN "liked: false" ELSE "liked: true")
  /\ UNCHANGED << posts, postSeq, likes, comments, likeDone, deletedOk >>
  /\ UNCHANGED << captionVars, usersRouterVars, dialogVars >>

\* POST /:id/like, the statement handed to db.run is executed
LikeRun(r) ==
  /\ postReq[r].route = "like"
  /\ postReq[r].pc = "run"
  /\ LET u == postReq[r].user
         p == postReq[r].post
     IN  /\ likes' = IF postReq[r].liked THEN InsertLike(u, p) ELSE DeleteLike(u, p)
         /\ likeDone' = [ likeDone EXCEPT ![u][p] = (@ + 1) % 2 ]
  /\ postReq' = [ postReq EXCEPT ![r] = NoPostReq ]
  /\ UNCHANGED << posts, postSeq, comments, postResponse, deletedOk >>
  /\ UNCHANGED << captionVars, usersRouterVars, dialogVars >>

\* DELETE /:id, up to db.get
DeleteRequest(r, u, p) ==
  /\ FreeSlot(r)
  /\ postReq' = [ postReq EXCEPT ![r] = PostReq("delete", u, p, "get", FALSE) ]
  /\ postResponse' = NoPostResponse
  /\ UNCHANGED << posts, postSeq, likes, comments, likeDone, deletedOk >>
  /\ UNCHANGED << captionVars, usersRouterVars, dialogVars >>

\* DELETE /:id, the callback of db.get: 404, or the three DELETE statements are
\* handed to db.run
DeleteGet(r) ==
  /\ postReq[r].route = "delete"
  /\ postReq[r].pc = "get"
  /\ IF PostOwnedBy(postReq[r].post, postReq[r].user)
     THEN /\ postReq' = [ postReq EXCEPT ![r].pc = "deleteLikes" ]
          /\ postResponse' = NoPostResponse
     ELSE /\ postReq' = [ postReq EXCEPT ![r] = NoPostReq ]
          /\ postResponse' =
               PostResponse("delete", postReq[r].user, postReq[r].post, 404,
                            "Post not found or unauthorized")
  /\ UNCHANGED << posts, postSeq, likes, comments, likeDone, deletedOk >>
  /\ UNCHANGED << captionVars, usersRouterVars, dialogVars >>

\* DELETE /:id: DELETE FROM likes WHERE post_id = ? is executed
DeleteLikes(r) ==
  /\ postReq[r].route = "delete"
  /\ postReq[r].pc = "deleteLikes"
  /\ likes' = SelectSeq(likes, LAMBDA row : row.post_id # postReq[r].post)
  /\ postReq' = [ postReq EXCEPT ![r].pc = "deleteComments" ]
  /\ postResponse' = NoPostResponse
  /\ UNCHANGED << posts, postSeq, comments, likeDone, deletedOk >>
  /\ UNCHANGED << captionVars, usersRouterVars, dialogVars >>

\* DELETE /:id: DELETE FROM comments WHERE post_id = ? is executed
DeleteComments(r) ==
  /\ postReq[r].route = "delete"
  /\ postReq[r].pc = "deleteComments"
  /\ comments' = SelectSeq(comments, LAMBDA row : row.post_id # postReq[r].post)
  /\ postReq' = [ postReq EXCEPT ![r].pc = "deletePost" ]
  /\ postResponse' = NoPostResponse
  /\ UNCHANGED << posts, postSeq, likes, likeDone, deletedOk >>
  /\ UNCHANGED << captionVars, usersRouterVars, dialogVars >>

\* DELETE /:id: DELETE FROM posts WHERE id = ? is executed and its callback answers
DeletePost(r) ==
  /\ postReq[r].route = "delete"
  /\ postReq[r].pc = "deletePost"
  /\ posts' = { row \in posts : row.id # postReq[r].post }
  /\ deletedOk' = deletedOk \cup { postReq[r].post }
  /\ postResponse' =
       PostResponse("delete", postReq[r].user, postReq[r].post, 200,
                    "Post deleted successfully")
  /\ postReq' = [ postReq EXCEPT ![r] = NoPostReq ]
  /\ UNCHANGED << postSeq, likes, comments, likeDone >>
  /\ UNCHANGED << captionVars, usersRouterVars, dialogVars >>

\* POST /:id/comments: INSERT INTO comments, answered in the callback; content is
\* NOT NULL, so a request without content fails
AddComment(u, p, hasContent) ==
  /\ hasContent => Len(comments) < MaxComments
  /\ IF hasContent
     THEN /\ comments' = Append(comments, [ user_id |-> u, post_id |-> p ])
          /\ postResponse' = PostResponse("comment", u, p, 201, "created")
     ELSE /\ postResponse' = PostResponse("comment", u, p, 500, "Failed to add comment")
          /\ UNCHANGED comments
  /\ UNCHANGED << posts, postSeq, likes, postReq, likeDone, deletedOk >>
  /\ UNCHANGED << captionVars, usersRouterVars, dialogVars >>

-----------------------------------------------------------------------------
(* The users router.                                                         *)

\* the routes of the router in the order of their registration; a route with param
\* matches every one-segment path, the other one the segment it names
usersRoutes ==
  << [ param |-> TRUE,  segment |-> "id", handler |-> "getUserProfile" ],
     [ param |-> FALSE, segment |-> "me", handler |-> "getCurrentUser" ] >>

RouteMatches(route, seg) == route.param \/ route.segment = seg

\* the handler express calls for GET /seg: the one of the first route that matches
\* (neither handler calls next(), so no later route is tried)
Dispatch(seg) ==
  LET k == CHOOSE k \in 1..Len(usersRoutes) :
             /\ RouteMatches(usersRoutes[k], seg)
             /\ \A j \in 1..(k - 1) : ~RouteMatches(usersRoutes[j], seg)
  IN  usersRoutes[k].handler

\* the one-segment paths requested: 'me' and the ids 1..3 as text
IdSegments == << "1", "2", "3" >>

UserSegments == { "me" } \cup { IdSegments[k] : k \in 1..Len(IdSegments) }

\* the rows a WHERE id = ? with the text seg selects: those of the id seg spells
RowsById(seg) ==
  { k \in 1..Len(users) : k <= Len(IdSegments) /\ IdSegments[k] = seg }

\* the text that spells the id of the row of user u (req.userId of its token)
UserIdOf(u) ==
  LET k == CHOOSE k \in 1..Len(users) : users[k].username = u
  IN  IdSegments[k]

Registered == { users[k].username : k \in 1..Len(users) }

NoUsersReq == [ handler |-> "none", segment |-> "none", user |-> NoUser, pc |-> "idle" ]

NoUsersResponse ==
  [ handler |-> "none", segment |-> "none", user |-> NoUser, status |-> 0,
    record |-> NoUser, posts |-> {} ]

\* a response of the users router, with the request it answers
UsersResponse(status, record, rows) ==
  [ handler |-> usersReq.handler, segment |-> usersReq.segment, user |-> usersReq.user,
    status |-> status, record |-> record, posts |-> rows ]

NoUsersRouter ==
  /\ users = <<>>
  /\ usersReq = NoUsersReq
  /\ usersResponse = NoUsersResponse

\* POST /register: INSERT INTO users; username is UNIQUE, ids count up from 1
Register(u) ==
  /\ u \notin Registered
  /\ users' = Append(users, [ id |-> Len(users) + 1, username |-> u ])
  /\ UNCHANGED << usersReq, usersResponse >>
  /\ UNCHANGED << captionVars, dbVars, dialogVars >>

\* GET /seg of the users router with the token of user u, or with none: the handler
\* the router calls, up to db.get; authenticate answers 401 before getCurrentUser
\* when there is no token
UsersGet(seg, u) ==
  /\ usersReq.pc = "idle"
  /\ IF Dispatch(seg) = "getCurrentUser" /\ u = NoUser
     THEN /\ usersResponse' =
               [ handler |-> "authenticate", segment |-> seg, user |-> u, status |-> 401,
                 record |-> NoUser, posts |-> {} ]
          /\ UNCHANGED usersReq
     ELSE /\ usersReq' = [ handler |-> Dispatch(seg), segment |-> seg, user |-> u, pc |-> "get" ]
          /\ usersResponse' = NoUsersResponse
  /\ UNCHANGED users
  /\ UNCHANGED << captionVars, dbVars, dialogVars >>

\* the callback of db.get: 404 when no row was found; getCurrentUser answers with the
\* row, getUserProfile goes on to db.all
UsersGetSettles ==
  /\ usersReq.pc = "get"
  /\ LET key == IF usersReq.handler = "getCurrentUser"
                THEN UserIdOf(usersReq.user) ELSE usersReq.segment
     IN  IF RowsById(key) = {}
         THEN /\ usersResponse' = UsersResponse(404, NoUser, {})
              /\ usersReq' = NoUsersReq
         ELSE IF usersReq.handler = "getCurrentUser"
         THEN /\ usersResponse' =
                   UsersResponse(200, users[CHOOSE k \in RowsById(key) : TRUE].username, {})
              /\ usersReq' = NoUsersReq
         ELSE /\ usersResponse' = NoUsersResponse
              /\ usersReq' = [ usersReq EXCEPT !.pc = "all" ]
  /\ UNCHANGED users
  /\ UNCHANGED << captionVars, dbVars, dialogVars >>

\* getUserProfile, the callback of db.all: the row with the posts of the user
UsersAllSettles ==
  /\ usersReq.pc = "all"
  /\ LET found == RowsById(usersReq.segment)
         name  == IF found = {} THEN NoUser ELSE users[CHOOSE k \in found : TRUE].username
     IN  usersResponse' =
           UsersResponse(200, name, { row.id : row \in { x \in posts : x.user_id = name } })
  /\ usersReq' = NoUsersReq
  /\ UNCHANGED users
  /\ UNCHANGED << captionVars, dbVars, dialogVars >>

-----------------------------------------------------------------------------
(* The CreatePost dialog.                                                    *)

NoText == ""

\* image is null
NoFile == 0

\* the files the user can pick
Files == 1..NumFiles

\* what the user types into the textarea
TypedTexts == { "", "my caption" }

\* response.data.caption of a 200 response
CaptionTexts == { "a cat on a sofa", " ", "Unable to generate caption" }

SelectImageFirst == "Please select an image first"

DefaultCaptionError == "Failed to generate caption. Please try again."

\* err.response.data.error of the error responses of the endpoint; the 429 body of
\* captionRateLimiter has a message and no error, a network failure has no response
ServerErrors ==
  { "No image file provided", "AI caption service is not configured",
    "Failed to generate caption", NoText }

\* the ways a request to /api/posts/generate-caption settles
CaptionOutcomes ==
  [ ok : { TRUE }, text : CaptionTexts ] \cup [ ok : { FALSE }, text : ServerErrors ]

\* the dialog as useState initialises it
NoDialog ==
  /\ image = NoFile
  /\ isGeneratingCaption = FALSE
  /\ captionError = NoText
  /\ captionField = NoText
  /\ inFlight = <<>>

\* a button that is disabled only while no image is selected
ButtonDisabledWithoutImage == image = NoFile

\* disabled={!image || isGeneratingCaption}
ButtonDisabled == image = NoFile \/ isGeneratingCaption

\* handleImageChange: e.target.files?.[0] is file, or there is none
handleImageChange(file) ==
  /\ IF file # NoFile
     THEN image' = file /\ captionError' = NoText
     ELSE UNCHANGED << image, captionError >>
  /\ UNCHANGED << isGeneratingCaption, captionField, inFlight >>
  /\ UNCHANGED << captionVars, dbVars, usersRouterVars >>

\* onChange of the textarea
TypeCaption(text) ==
  /\ captionField' = text
  /\ UNCHANGED << image, isGeneratingCaption, captionError, inFlight >>
  /\ UNCHANGED << captionVars, dbVars, usersRouterVars >>

\* handleGenerateCaption up to await axios.post, with the render that follows the
\* click event
handleGenerateCaption ==
  /\ Len(inFlight) < MaxInFlight
  /\ IF image = NoFile
     THEN /\ captionError' = SelectImageFirst
          /\ UNCHANGED << isGeneratingCaption, inFlight >>
     ELSE /\ isGeneratingCaption' = TRUE
          /\ captionError' = NoText
          /\ inFlight' = Append(inFlight, image)
  /\ UNCHANGED << image, captionField >>
  /\ UNCHANGED << captionVars, dbVars, usersRouterVars >>

\* a click on the AI button, which a disabled button does not deliver
GenerateClicked == ~ButtonDisabled /\ handleGenerateCaption

\* handleGenerateCaption after await axios.post, for the k-th request in flight: try,
\* catch and finally
CaptionRequestSettles(k, outcome) ==
  /\ k \in 1..Len(inFlight)
  /\ inFlight' = SubSeq(inFlight, 1, k - 1) \o SubSeq(inFlight, k + 1, Len(inFlight))
  /\ IF outcome.ok
     THEN captionField' = outcome.text /\ UNCHANGED captionError
     ELSE /\ captionError' = IF outcome.text = NoText THEN DefaultCaptionError ELSE outcome.text
          /\ UNCHANGED captionField
  /\ isGeneratingCaption' = FALSE
  /\ UNCHANGED image
  /\ UNCHANGED << captionVars, dbVars, usersRouterVars >>

NoApp == NoPosts /\ NoUsersRouter /\ NoDialog

-----------------------------------------------------------------------------
(* POST /generate-caption: captionRateLimiter, authenticate, upload and the   *)
(* handler, which calls the Hugging Face generateCaption.                     *)

RouteMax == 5

Clients == 1..NumClients

HfTokens == { "", "hf_test_token" }

\* isConfigured(): !!HF_TOKEN
isConfigured == hfToken # ""

\* req.file.path of a file multer stored under its destination 'uploads/'
UploadedFile == << "u", "/", "f" >>

NoHttpResponse == [ status |-> 0, cause |-> "none", error |-> "", caption |-> <<>> ]

\* a response of the endpoint: its status, its body, and the branch that sent it
Http(status, cause, error, caption) ==
  [ status |-> status, cause |-> cause, error |-> error, caption |-> caption ]

NoRoute ==
  /\ NoApp
  /\ lastUser = NoUser
  /\ userHits = [ u \in Users |-> 0 ]
  /\ hfToken = ""
  /\ routeHits = [ c \in Clients |-> 0 ]
  /\ routePc = "idle"
  /\ httpResponse = NoHttpResponse

InitRoute ==
  /\ NoApp
  /\ lastUser = NoUser
  /\ userHits = [ u \in Users |-> 0 ]
  /\ hfToken \in HfTokens
  /\ routeHits = [ c \in Clients |-> 0 ]
  /\ routePc = "idle"
  /\ httpResponse = NoHttpResponse

\* captionRateLimiter counts the request of client key c (the count is kept up to
\* the first value above max)
captionRateLimiterHits(c) ==
  [ routeHits EXCEPT ![c] = IF @ > RouteMax THEN @ ELSE @ + 1 ]

\* a handler that looks at the configuration before it looks for the file
RouteBranchConfigFirst(c, authenticated, hasFile) ==
  IF captionRateLimiterHits(c)[c] > RouteMax THEN "rateLimited"
  ELSE IF ~authenticated THEN "unauthenticated"
  ELSE IF ~isConfigured THEN "notConfigured"
  ELSE IF ~hasFile THEN "noFile"
  ELSE "generateCaption"

\* the middleware or the branch of the handler that answers, up to the await
RouteBranch(c, authenticated, hasFile) ==
  IF captionRateLimiterHits(c)[c] > RouteMax THEN "rateLimited"
  ELSE IF ~authenticated THEN "unauthenticated"
  ELSE IF ~hasFile THEN "noFile"
  ELSE IF ~isConfigured THEN "notConfigured"
  ELSE "generateCaption"

\* the authenticate middleware (its source is not part of server/src) turns away a
\* request without a valid token
AuthenticateResponse == Http(401, "unauthenticated", "Unauthorized", <<>>)

\* the response of a request that does not reach generateCaption
EarlyResponse(branch) ==
  IF branch = "rateLimited"
  THEN Http(429, branch, "Too many caption generation requests, please try again later.", <<>>)
  ELSE IF branch = "unauthenticated"
  THEN AuthenticateResponse
  ELSE IF branch = "noFile"
  THEN Http(400, branch, "No image file provided", <<>>)
  ELSE Http(503, branch, "Caption generation service not configured. Please set HUGGINGFACE_API_KEY environment variable.", <<>>)

\* the catch block of the handler
FailedResponse(cause) == Http(500, cause, "Failed to generate caption", <<>>)

\* res.json({ caption })
CaptionResponse(caption) == Http(200, "caption", "", caption)

\* a request to POST /generate-caption, up to the handler's await or its response
PostGenerateCaption(c, authenticated, hasFile, exists, readable) ==
  /\ routePc = "idle"
  /\ routeHits' = captionRateLimiterHits(c)
  /\ IF RouteBranch(c, authenticated, hasFile) = "generateCaption"
     THEN /\ generateCaption(UploadedFile, exists, readable)
          /\ IF hfResult'.outcome = "error"
             THEN httpResponse' = FailedResponse("threw") /\ routePc' = "idle"
             ELSE httpResponse' = NoHttpResponse /\ routePc' = "awaiting"
     ELSE /\ httpResponse' = EarlyResponse(RouteBranch(c, authenticated, hasFile))
          /\ routePc' = "idle"
          /\ UNCHANGED << hfVars, lastResult, serviceVars, normVars >>
  /\ UNCHANGED << hfToken, appVars >>

\* the handler after await captionService.generateCaption(req.file.path)
GenerateCaptionSettles(outcome) ==
  /\ routePc = "awaiting"
  /\ ImageToTextSettles(outcome)
  /\ routePc' = "idle"
  /\ httpResponse' =
       IF hfResult'.outcome = "caption" THEN CaptionResponse(hfResult'.caption)
       ELSE FailedResponse("providerFailed")
  /\ UNCHANGED << hfToken, routeHits, appVars >>

\* the window of client key c ends: the store forgets the key
WindowReset(c) ==
  /\ routeHits[c] > 0
  /\ routeHits' = [ routeHits EXCEPT ![c] = 0 ]
  /\ UNCHANGED << hfToken, routePc, httpResponse, appVars >>
  /\ UNCHANGED << serviceVars, lastResult, hfVars, normVars >>

-----------------------------------------------------------------------------
(* Specifications.                                                         *)

Init == InitService /\ InitHf /\ NoNormalizer /\ NoRoute

\* requests served one after another, each response observed
Next ==
  \/ \E d \in Delays : Tick(d) /\ Silent
  \/ \E r \in Slots, p \in ServicePaths, exists \in BOOLEAN :
       /\ AllIdle
       /\ generateCaptions(r, p, exists)
       /\ Observe(generateCaptionsReturns(exists))
  \/ \E r \in Slots, readOk \in BOOLEAN :
       ReadFileSettles(r, readOk) /\ Observe(ReadFileSettlesReturns(readOk))
  \/ \E r \in Slots :
       /\ AllIdle
       /\ generateCaptionsFromBuffer(r)
       /\ Observe(generateCaptionsFromBufferReturns)
  \/ \E r \in Slots, outcome \in ProviderOutcomes :
       ProviderSettles(r) /\ Observe(ProviderSettlesReturns(r, outcome))
  \/ RateLimitStatus /\ Silent

Spec == Init /\ [][Next]_vars

\* requests interleaved at their await points; the responses are not observed
NextConcurrent ==
  \/ \E d \in Delays : Tick(d) /\ Silent
  \/ \E r \in Slots, p \in ServicePaths, exists \in BOOLEAN :
       generateCaptions(r, p, exists) /\ Silent
  \/ \E r \in Slots, readOk \in BOOLEAN : ReadFileSettles(r, readOk) /\ Silent
  \/ \E r \in Slots : generateCaptionsFromBuffer(r) /\ Silent
  \/ \E r \in Slots : ProviderSettles(r) /\ Silent
  \/ RateLimitStatus /\ Silent

SpecConcurrent == Init /\ [][NextConcurrent]_vars

\* a started read of the local file settles
ReadSettles == \E r \in Slots, readOk \in BOOLEAN : ReadFileSettles(r, readOk) /\ Silent

\* the interleaved requests with the scheduling the handlers can count on: a read of
\* the local file settles.  Nothing makes the provider answer, and the handlers set
\* no timer on the call they await, so no step is forced on a request that waits for
\* the provider
SpecConcurrentFair == Init /\ [][NextConcurrent]_vars /\ WF_vars(ReadSettles)

\* buffer-based requests only, interleaved at their await, and status queries observed
NextBuffer ==
  \/ \E d \in Delays : Tick(d) /\ Silent
  \/ \E r \in Slots : generateCaptionsFromBuffer(r) /\ Silent
  \/ \E r \in Slots : ProviderSettles(r) /\ Silent
  \/ RateLimitStatus /\ ObserveStatus

SpecBuffer == Init /\ [][NextBuffer]_vars

InitHfService ==
  /\ InitService
  /\ apiKey = Undefined
  /\ maxRequestsPerMinute = 1
  /\ maxRequestsPerHour = 1
  /\ hfInput \in PathInputs
  /\ hfPc = "idle"
  /\ hfReq = NoHfReq
  /\ hfResult = NoHfResult
  /\ NoNormalizer
  /\ NoRoute

NextHf ==
  \/ \E exists \in BOOLEAN, readable \in BOOLEAN :
       generateCaption(hfInput, exists, readable) /\ UNCHANGED routeVars
  \/ \E readable \in BOOLEAN :
       generateCaptionUnchecked(hfInput, readable) /\ UNCHANGED routeVars
  \/ \E outcome \in HfOutcomes : ImageToTextSettles(outcome) /\ UNCHANGED routeVars

\* the Hugging Face service, one request at a time, for each enumerated path
SpecHf == InitHfService /\ [][NextHf]_vars

InitNormalize == InitService /\ apiKey = Undefined /\ maxRequestsPerMinute = 1
                 /\ maxRequestsPerHour = 1 /\ InitHf /\ InitNormalizer /\ NoRoute

NextNormalize ==
  \/ NormalizeText
  \/ NormalizeOutput

\* the caption parsing, for each enumerated provider text
SpecNormalize == InitNormalize /\ [][NextNormalize]_vars

InitEndpoint == InitService /\ apiKey = Undefined /\ maxRequestsPerMinute = 1
                /\ maxRequestsPerHour = 1 /\ InitHf /\ NoNormalizer /\ InitRoute

\* history: user u, or nobody, sent a request to the endpoint
SentBy(u) ==
  /\ lastUser' = u
  /\ userHits' = IF u \in Users
                 THEN [ userHits EXCEPT ![u] = IF @ > RouteMax THEN @ ELSE @ + 1 ]
                 ELSE userHits

NextEndpoint ==
  \/ \E c \in Clients, authenticated \in BOOLEAN, hasFile \in BOOLEAN,
        exists \in BOOLEAN, readable \in BOOLEAN :
       PostGenerateCaption(c, authenticated, hasFile, exists, readable) /\ UNCHANGED userVars
  \/ \E outcome \in HfOutcomes : GenerateCaptionSettles(outcome) /\ UNCHANGED userVars
  \/ \E c \in Clients : WindowReset(c) /\ UNCHANGED userVars

\* POST /generate-caption, one request at a time
SpecEndpoint == InitEndpoint /\ [][NextEndpoint]_vars

\* requests to the endpoint by users and by clients that carry no user, with files
\* that multer stored and that can be read
NextUsers ==
  \/ \E c \in Clients, u \in Users \cup { NoUser }, hasFile \in BOOLEAN :
       PostGenerateCaption(c, u \in Users, hasFile, TRUE, TRUE) /\ SentBy(u)
  \/ \E outcome \in HfOutcomes : GenerateCaptionSettles(outcome) /\ UNCHANGED userVars
  \/ \E c \in Clients : WindowReset(c) /\ UNCHANGED userVars

\* the endpoint with HUGGINGFACE_API_KEY set
InitUsers == InitEndpoint /\ hfToken # ""

\* POST /generate-caption with the user of each request on record
SpecUsers == InitUsers /\ [][NextUsers]_vars

\* buffer-based requests served one after another by the one exported service, each
\* made for one of the users
NextCallers ==
  \/ \E d \in Delays : Tick(d) /\ Silent
  \/ \E r \in Slots, u \in Users :
       /\ AllIdle
       /\ generateCaptionsFromBuffer(r)
       /\ lastResult' \in generateCaptionsFromBufferReturns
       /\ MadeFor(u, generateCaptionsFromBufferBranch = "calling")
  \/ \E r \in Slots, outcome \in ProviderOutcomes :
       ProviderSettles(r) /\ Observe(ProviderSettlesReturns(r, outcome))

SpecCallers == Init /\ [][NextCallers]_vars

InitPosts == InitService /\ apiKey = Undefined /\ maxRequestsPerMinute = 1
             /\ maxRequestsPerHour = 1 /\ InitHf /\ NoNormalizer /\ NoRoute

\* requests to the posts router, their statements interleaved
NextPosts ==
  \/ \E u \in Users : CreatePostRow(u)
  \/ \E r \in Slots, u \in Users, p \in PostIds : LikeRequest(r, u, p)
  \/ \E r \in Slots : LikeGet(r)
  \/ \E r \in Slots : LikeRun(r)
  \/ \E r \in Slots, u \in Users, p \in PostIds : DeleteRequest(r, u, p)
  \/ \E r \in Slots : DeleteGet(r)
  \/ \E r \in Slots : DeleteLikes(r)
  \/ \E r \in Slots : DeleteComments(r)
  \/ \E r \in Slots : DeletePost(r)
  \/ \E u \in Users, p \in PostIds, hasContent \in BOOLEAN : AddComment(u, p, hasContent)

SpecPosts == InitPosts /\ [][NextPosts]_vars

\* users register, create posts and request paths of the users router, with their
\* token or with none
NextUsersRouter ==
  \/ \E u \in Users : Register(u)
  \/ \E u \in Registered : CreatePostRow(u)
  \/ \E seg \in UserSegments, u \in Registered \cup { NoUser } : UsersGet(seg, u)
  \/ UsersGetSettles
  \/ UsersAllSettles

SpecUsersRouter == InitPosts /\ [][NextUsersRouter]_vars

\* the events of one CreatePost dialog
NextDialog ==
  \/ \E file \in Files \cup { NoFile } : handleImageChange(file)
  \/ \E text \in TypedTexts : TypeCaption(text)
  \/ GenerateClicked
  \/ \E k \in 1..MaxInFlight, outcome \in CaptionOutcomes : CaptionRequestSettles(k, outcome)

SpecDialog == InitPosts /\ [][NextDialog]_vars

-----------------------------------------------------------------------------
(* Properties.                                                             *)

Response == lastResult.response

Count(ts, from) == Len(SelectSeq(ts, LAMBDA x : x > from))

\* C1: every response with success = true carries exactly 3 captions, each non-empty
\* after trimming, whichever branch returned it
C1_SuccessHasThreeCaptions ==
  Response.success =>
    /\ Len(Response.captions) = 3
    /\ \A k \in 1..3 : Trim(Response.captions[k]) # <<>>

\* a provider text with fewer than 3 non-empty lines was parsed and padded
C1_Witness ==
  /\ lastResult.cause = "parsed"
  /\ Response.success
  /\ Response.captions[3] = Filler

\* C2: with requests served one after another, the limiter rejects the request that
\* arrives when maxRequestsPerMinute requests were admitted within the last minute,
\* and admits it when fewer were (and fewer than maxRequestsPerHour in the last hour)
C2_AdmitsExactlyUpToLimit ==
  AllIdle /\ isEnabled =>
    LET inMinute == Count(admitTimes, now - OneMinute)
        inHour   == Count(admitTimes, now - OneHour)
    IN  /\ inMinute >= maxRequestsPerMinute => ~checkRateLimit(requestTimestamps, now)
        /\ inMinute < maxRequestsPerMinute /\ inHour < maxRequestsPerHour
             => checkRateLimit(requestTimestamps, now)

\* C3: the recorded timestamps (one per provider call) never hold more than
\* maxRequestsPerMinute in a one-minute window nor more than maxRequestsPerHour in a
\* one-hour window
C3_NoOverAdmission ==
  \A k \in 1..Len(requestTimestamps) :
    LET upTo == SelectSeq(requestTimestamps, LAMBDA x : x <= requestTimestamps[k])
    IN  /\ Count(upTo, requestTimestamps[k] - OneMinute) <= maxRequestsPerMinute
        /\ Count(upTo, requestTimestamps[k] - OneHour) <= maxRequestsPerHour

\* C4: a provider call that fails (API error of any status, any other exception) or
\* gives null or empty content is answered with success = true and a fallback set
C4_ProviderFailureDegrades ==
  lastResult.cause \in { "apiError", "exception", "noContent" } =>
    /\ Response.success
    /\ Response.captions \in DemoCaptionSets
    /\ Response.error = NoError

C4_Witness == lastResult.cause = "apiError" /\ lastResult.kind = "path"

\* C5: with the API key absent or empty every response is success = true with a
\* fallback set, and the provider is never called nor awaited
C5_UnconfiguredNeverCalls ==
  Falsy(apiKey) =>
    /\ providerCalls = 0
    /\ AllIdle
    /\ lastResult # NoResult =>
         /\ Response.success
         /\ Response.captions \in DemoCaptionSets

C5_Witness == apiKey = "" /\ lastResult.kind = "buffer" /\ lastResult.cause = "notConfigured"

\* C6 as claimed: a path-based request whose file does not exist always ends in the
\* error 'Image file not found', in every configuration and limiter state
C6_MissingFileAlwaysError ==
  lastResult.kind = "path" /\ ~lastResult.fileExists =>
    /\ ~Response.success
    /\ Response.error = "Image file not found"

\* C6 as amended: a path-based request whose file does not exist ends in the error
\* 'Image file not found' when the service is configured and the limiter admits the
\* request, and in a fallback set with success = true otherwise
C6_MissingFileErrorOnceAdmitted ==
  lastResult.kind = "path" /\ ~lastResult.fileExists =>
    IF ~isEnabled \/ lastResult.cause = "rateLimited"
    THEN Response.success /\ Response.captions \in DemoCaptionSets
    ELSE ~Response.success /\ Response.error = "Image file not found"

C6_Witness ==
  /\ lastResult.kind = "path"
  /\ ~lastResult.fileExists
  /\ isEnabled
  /\ lastResult.cause # "rateLimited"

\* C7: the buffer-based handler never answers success = false; the path-based one does
\* so only for a missing file; a file that exists but cannot be read, like every
\* provider failure, is answered with success = true and a fallback set
C7_OnlyMissingFileFails ==
  /\ lastResult.kind = "buffer" => Response.success
  /\ lastResult.kind = "path" /\ ~Response.success =>
       ~lastResult.fileExists /\ Response.error = "Image file not found"
  /\ lastResult.cause \in { "readError", "apiError", "exception", "noContent" } =>
       Response.success /\ Response.captions \in DemoCaptionSets

C7_Witness == lastResult.cause = "readError" /\ lastResult.fileExists

\* C8: isValidPath accepts a path exactly when its resolved form is the upload root or
\* lies below it
C8_ValidIffUnderRoot ==
  hfResult.validation \in { "accepted", "rejected" } =>
    (hfResult.validation = "accepted") = UnderUploadRoot(PathResolve(hfResult.path))

\* the paths the handlers have handed to the fs module
AccessedPaths ==
  ({ hfResult.accessed } \cup { req[r].path : r \in Slots }) \ { NoPath }

\* C9: no path-based operation hands the fs module a path outside the upload root
C9_OnlyUploadRootAccessed ==
  \A p \in AccessedPaths : UnderUploadRoot(PathResolve(p))

\* a step in which a handler's checkRateLimit call returns false
RejectStep ==
  /\ isEnabled
  /\ ~checkRateLimit(requestTimestamps, now)
  /\ \/ \E r \in Slots, p \in ServicePaths, exists \in BOOLEAN : generateCaptions(r, p, exists)
     \/ \E r \in Slots : generateCaptionsFromBuffer(r)

\* C10: a rejected request appends nothing: it leaves requestTimestamps as it was,
\* less the entries older than one hour, and both window counts as they were
C10_RejectedAppendsNothing ==
  [][ RejectStep =>
        /\ requestTimestamps' = FilterLastHour(requestTimestamps, now)
        /\ RequestsInLastMinute(requestTimestamps', now)
             = RequestsInLastMinute(requestTimestamps, now)
        /\ Len(requestTimestamps') = Len(FilterLastHour(requestTimestamps, now)) ]_vars

\* a request was rejected while timestamps were on record
C10_Witness == lastResult.cause = "rateLimited" /\ requestTimestamps # <<>>

\* a step in which checkRateLimit returns true and the call returns before its first
\* await, or in which the buffer-based handler passes from the check to the provider
AdmittedAtOnce ==
  /\ isEnabled
  /\ checkRateLimit(requestTimestamps, now)
  /\ \/ \E r \in Slots, p \in ServicePaths : generateCaptions(r, p, FALSE)
     \/ \E r \in Slots : generateCaptionsFromBuffer(r)

\* C11: every call in which checkRateLimit returns true leaves requestTimestamps one
\* entry longer: at once when the call does not wait for the file, and when the read
\* of the file settles otherwise
C11_AdmittedAppendsOne ==
  [][ /\ AdmittedAtOnce =>
           Len(requestTimestamps') = Len(checkRateLimitState(requestTimestamps, now)) + 1
      /\ (\E r \in Slots, readOk \in BOOLEAN : ReadFileSettles(r, readOk)) =>
           Len(requestTimestamps') = Len(requestTimestamps) + 1 ]_vars

\* C12: a request the limiter rejects is answered with success = true and a fallback
\* set, no error, and no provider call is started for it
C12_RejectedDegrades ==
  lastResult.cause = "rateLimited" =>
    /\ Response.success
    /\ Response.captions \in DemoCaptionSets
    /\ Response.error = NoError
    /\ AllIdle
    /\ providerCalls = recorded

\* a buffer-based request was rejected after the provider had been called for others
C12_Witness ==
  lastResult.cause = "rateLimited" /\ lastResult.kind = "buffer" /\ providerCalls > 0

\* C13: checkRateLimit returns true exactly when fewer than maxRequestsPerMinute
\* timestamps lie in the last minute and fewer than maxRequestsPerHour in the last hour
C13_AdmitsIffBothBelow ==
  checkRateLimit(requestTimestamps, now) =
    ( /\ Count(requestTimestamps, now - OneMinute) < maxRequestsPerMinute
      /\ Count(requestTimestamps, now - OneHour) < maxRequestsPerHour )

\* a request was rejected on the hour limit alone
C13_Witness ==
  /\ lastResult.cause = "rateLimited"
  /\ Count(requestTimestamps, now - OneMinute) < maxRequestsPerMinute
  /\ Count(requestTimestamps, now - OneHour) >= maxRequestsPerHour

\* requestTimestamps is non-decreasing in insertion order
NonDecreasing ==
  \A k \in 1..(Len(requestTimestamps) - 1) : requestTimestamps[k] <= requestTimestamps[k + 1]

\* a step in which checkRateLimit or getRateLimitStatus runs
CheckOrStatusStep ==
  \/ /\ isEnabled
     /\ \/ \E r \in Slots, p \in ServicePaths, exists \in BOOLEAN : generateCaptions(r, p, exists)
        \/ \E r \in Slots : generateCaptionsFromBuffer(r)
  \/ RateLimitStatus

\* C17: requestTimestamps is non-decreasing in every state, and after every
\* checkRateLimit or getRateLimitStatus call it holds only timestamps of the last hour
C17_PrunedAndNonDecreasing ==
  /\ []NonDecreasing
  /\ [][ CheckOrStatusStep =>
           \A k \in 1..Len(requestTimestamps') : requestTimestamps'[k] > now - OneHour ]_vars

\* an entry older than one hour was pruned while a younger one was kept
C17_Witness ==
  /\ recorded > Len(requestTimestamps)
  /\ requestTimestamps # <<>>
  /\ now >= OneHour

\* C19: an invocation calls the provider at most once: a provider call starts only in
\* an invocation that has not called yet, and the invocation whose call settles,
\* whatever the outcome, returns without another call
C19_NoRetry ==
  [][ /\ providerCalls' # providerCalls =>
           /\ providerCalls' = providerCalls + 1
           /\ \E r \in Slots : req[r].pc # "calling" /\ req'[r].pc = "calling"
      /\ \A r \in Slots :
           req[r].pc = "calling" /\ req'[r] # req[r] =>
             req'[r] = IdleReq /\ providerCalls' = providerCalls ]_vars

\* a provider call that gave no content has settled, and the provider was called once
C19_Witness ==
  lastResult.cause \in { "noContent", "apiError" } /\ providerCalls = 1 /\ AllIdle

\* the decision of the limiter at time t by the admissions that were made
DecisionByAdmissions(t) ==
  /\ Count(admitTimes, t - OneMinute) < maxRequestsPerMinute
  /\ Count(admitTimes, t - OneHour) < maxRequestsPerHour

\* C18: with buffer-based requests, getRateLimitStatus returns the numbers of requests
\* admitted in the last minute and in the last hour and the configured maxima; the call
\* adds no entry, and the admission checks after it decide by the admissions made
C18_StatusReportsTrueCounts ==
  lastResult.kind = "status" =>
    /\ lastResult.status.requestsInLastMinute = Count(admitTimes, now - OneMinute)
    /\ lastResult.status.requestsInLastHour = Count(admitTimes, now - OneHour)
    /\ lastResult.status.maxRequestsPerMinute = maxRequestsPerMinute
    /\ lastResult.status.maxRequestsPerHour = maxRequestsPerHour
    /\ Len(requestTimestamps) = Count(admitTimes, now - OneHour)
    /\ \A t \in { now } \cup { now + d : d \in Delays } :
         checkRateLimit(requestTimestamps, t) = DecisionByAdmissions(t)

\* the status was queried after two requests admitted within the last minute
C18_Witness ==
  /\ lastResult.kind = "status"
  /\ lastResult.status.requestsInLastMinute = 2
  /\ lastResult.status.requestsInLastHour = 2

\* the non-empty lines of a raw text, trimmed, in their order
TrimmedLines(text) == SelectSeq(MapTrim(Split(text, "\n")), NonEmpty)

\* C14: a non-empty text with fewer than 3 non-empty lines is parsed into exactly 3
\* captions: its non-empty lines, trimmed, in their order, then the filler caption
C14_PaddingLaw ==
  \A k \in 1..Len(parsed) :
    LET lines == TrimmedLines(rawText)
    IN  Len(lines) < 3 =>
          /\ Len(parsed[k]) = 3
          /\ \A j \in 1..3 :
               parsed[k][j] = IF j <= Len(lines) THEN lines[j] ELSE Filler

\* 'Only one caption' gave the caption and two fillers
C14_Witness ==
  /\ rawText = OnlyOneCaption
  /\ parsed # <<>>
  /\ parsed[1] = << OnlyOneCaption, Filler, Filler >>

\* C15: a text with 3 or more non-empty lines is parsed into exactly its first 3
\* non-empty lines, trimmed, in their order, and never into more than 3 captions
C15_TruncationLaw ==
  \A k \in 1..Len(parsed) :
    LET lines == TrimmedLines(rawText)
    IN  /\ Len(parsed[k]) <= 3
        /\ Len(lines) >= 3 => parsed[k] = << lines[1], lines[2], lines[3] >>

\* a text of four lines, one of them blank, lost its blank line and its last line
C15_Witness ==
  /\ rawText = FourLines
  /\ parsed # <<>>
  /\ parsed[1] = << << "a" >>, << "b" >>, << "c" >> >>

\* C16: every parsing of the same text gives the same captions, and parsing the
\* captions joined by newlines gives these captions again
C16_Idempotent ==
  /\ \A j, k \in 1..Len(parsed) : parsed[j] = parsed[k]
  /\ reparsed # <<>> => reparsed = parsed[Len(parsed)]

\* a text was parsed twice and its output, which needed trimming and padding, once more
C16_Witness ==
  /\ Len(parsed) = 2
  /\ reparsed # <<>>
  /\ rawText = << " ", "a", "\n", "b", " " >>

\* C20: when the provider call of POST /generate-caption fails, the endpoint answers
\* 200 with a caption that is non-empty after trimming
C20_ProviderFailureGives200 ==
  httpResponse.cause = "providerFailed" =>
    /\ httpResponse.status = 200
    /\ Trim(httpResponse.caption) # <<>>

\* a request of an authenticated user that the endpoint's rate limiter lets pass
HandlerRuns(c, hasFile, exists, readable) ==
  /\ captionRateLimiterHits(c)[c] <= RouteMax
  /\ PostGenerateCaption(c, TRUE, hasFile, exists, readable)

\* C21: the handler of POST /generate-caption answers 400 to a request without a file,
\* configured or not; 503, without invoking generateCaption, to a request with a file
\* when unconfigured; it invokes generateCaption only otherwise, and the settled call
\* is answered with 200 and the caption or with 500 'Failed to generate caption'
C21_ChecksOrdered ==
  [][ /\ \A c \in Clients, hasFile, exists, readable \in BOOLEAN :
           HandlerRuns(c, hasFile, exists, readable) =>
             /\ ~hasFile =>
                  /\ httpResponse'.status = 400
                  /\ httpResponse'.error = "No image file provided"
                  /\ UNCHANGED hfVars
             /\ hasFile /\ ~isConfigured =>
                  /\ httpResponse'.status = 503
                  /\ UNCHANGED hfVars
             /\ hasFile /\ isConfigured =>
                  \/ routePc' = "awaiting" /\ hfPc' = "calling"
                  \/ httpResponse'.status = 500 /\ hfResult'.outcome = "error"
      /\ (\E outcome \in HfOutcomes : GenerateCaptionSettles(outcome)) =>
           \/ /\ httpResponse'.status = 200
              /\ httpResponse'.caption = hfResult'.caption
              /\ hfResult'.outcome = "caption"
           \/ /\ httpResponse'.status = 500
              /\ httpResponse'.error = "Failed to generate caption" ]_vars

\* a request without a file was answered 400 while the service was unconfigured
C21_Witness == httpResponse.cause = "noFile" /\ httpResponse.status = 400 /\ ~isConfigured

\* C22: a user is answered 429 only after more than 5 requests of this user
C22_LimitPerUser ==
  httpResponse.cause = "rateLimited" /\ lastUser \in Users => userHits[lastUser] > RouteMax

\* the admissions made for caller u after time from
OwnAdmissions(u, from) ==
  Len(SelectSeq(callerAdmits, LAMBDA a : a.caller = u /\ a.time > from))

\* C23: a request is rejected by the limiter only when the admissions made for its
\* own caller reach a limit: requests made for one caller never cause the rejection
\* of another caller's request
C23_RejectedByOwnAdmissions ==
  lastResult.cause = "rateLimited" /\ lastCaller \in Users =>
    \/ OwnAdmissions(lastCaller, now - OneMinute) >= maxRequestsPerMinute
    \/ OwnAdmissions(lastCaller, now - OneHour) >= maxRequestsPerHour

\* C24: a caption generateCaption of database.ts resolves with is non-empty after
\* trimming: empty or blank text of the endpoint is never returned as the caption
C24_CaptionNonBlank ==
  hfResult.variant = "checked" /\ hfResult.outcome = "caption" =>
    Trim(hfResult.caption) # <<>>

\* C25: every request that has entered a handler eventually completes with a
\* response, even when the provider never answers
C25_EveryRequestCompletes ==
  \A r \in Slots : (req[r].pc # "idle") ~> (req[r].pc = "idle")

\* the causes of the responses that carry fallback captions
FallbackCauses ==
  { "notConfigured", "rateLimited", "noContent", "apiError", "exception", "readError" }

\* C26: the fallback source holds at least 5 pairwise distinct sets, each of exactly
\* 3 captions that are non-empty after trimming; getDemoCaptions returns one of them,
\* more than one of them over its choices, and every fallback response carries one
C26_FallbackSets ==
  /\ Len(demoSets) >= 5
  /\ Cardinality(DemoCaptionSets) = Len(demoSets)
  /\ \A set \in DemoCaptionSets :
       Len(set) = 3 /\ \A k \in 1..3 : Trim(set[k]) # <<>>
  /\ \A i \in DemoChoices : getDemoCaptions(i) \in DemoCaptionSets
  /\ Cardinality({ getDemoCaptions(i) : i \in DemoChoices }) > 1
  /\ lastResult.cause \in FallbackCauses => Response.captions \in DemoCaptionSets

\* a fallback response carried the last of the sets
C26_Witness ==
  lastResult.cause = "notConfigured" /\ Response.captions = DemoSet5

\* C27: a path-based request takes its steps in the order configuration check,
\* limiter check, file check, read, recordRequest, provider call, parsing: it starts
\* the read only when configured, admitted and the file exists, it records and calls
\* the provider only when the read has settled, and only a settled provider call is
\* parsed
C27_StepsInOrder ==
  [][ /\ \A r \in Slots, p \in ServicePaths, exists \in BOOLEAN :
           generateCaptions(r, p, exists) =>
             /\ req'[r].pc \in { "idle", "reading" }
             /\ req'[r].pc = "reading" =>
                  isEnabled /\ checkRateLimit(requestTimestamps, now) /\ exists
             /\ recorded' = recorded
             /\ providerCalls' = providerCalls
      /\ \A r \in Slots :
           req'[r].kind = "path" /\ req'[r].pc = "calling" /\ req[r].pc # "calling" =>
             /\ req[r].pc = "reading"
             /\ requestTimestamps' = Append(requestTimestamps, now)
             /\ recorded' = recorded + 1
             /\ providerCalls' = providerCalls + 1
      /\ lastResult'.kind = "path" /\ lastResult'.cause = "parsed" =>
           \E r \in Slots :
             req[r].kind = "path" /\ req[r].pc = "calling" /\ req'[r].pc = "idle"
    ]_vars

\* a path-based request went through every step and its provider text was parsed
C27_Witness ==
  /\ lastResult.kind = "path"
  /\ lastResult.cause = "parsed"
  /\ recorded = 1
  /\ providerCalls = 1

\* the requests that wait for the provider
Calling == { r \in Slots : req[r].pc = "calling" }

\* C28: as many provider calls were started as timestamps were recorded by
\* recordRequest, and no request waits for the provider without a recorded timestamp
C28_CallsEqualRecorded ==
  /\ providerCalls = recorded
  /\ Cardinality(Calling) <= recorded

\* a path-based and a buffer-based request both wait for the provider
C28_Witness ==
  /\ providerCalls = 2
  /\ recorded = 2
  /\ \E r, q \in Calling : req[r].kind = "path" /\ req[q].kind = "buffer"

\* C29: with buffer-based requests only, every admission is recorded in the step that
\* admits it, and no one-minute window of admissions holds more than
\* maxRequestsPerMinute of them
C29_BufferAdmissionsWithinLimit ==
  /\ FilterLastHour(admitTimes, now) = FilterLastHour(requestTimestamps, now)
  /\ \A k \in 1..Len(admitTimes) :
       Count(SubSeq(admitTimes, 1, k), admitTimes[k] - OneMinute) <= maxRequestsPerMinute

\* two buffer-based requests wait for the provider at once and the limit is reached
C29_Witness ==
  /\ maxRequestsPerMinute = 2
  /\ \A r \in 1..2 : req[r].pc = "calling" /\ req[r].kind = "buffer"
  /\ admitTimes = << now, now >>
  /\ ~checkRateLimit(requestTimestamps, now)

\* the timestamps of ts that are less than w old at time t
Younger(ts, t, w) == Len(SelectSeq(ts, LAMBDA x : t - x < w))

\* the times a later request can arrive at
LaterTimes == { now + d : d \in { 0, OneMinute, OneHour } \cup Delays }

\* C30: the short window counts a timestamp only while it is less than 60 seconds
\* old; a request that arrives when fewer than maxRequestsPerMinute timestamps are
\* that young (and fewer than maxRequestsPerHour less than an hour old) is admitted,
\* and with no further admission a request one hour later is admitted
C30_ShortWindowSlides ==
  /\ \A t \in LaterTimes :
       /\ RequestsInLastMinute(requestTimestamps, t) = Younger(requestTimestamps, t, OneMinute)
       /\ Younger(requestTimestamps, t, OneMinute) < maxRequestsPerMinute
            /\ Younger(requestTimestamps, t, OneHour) < maxRequestsPerHour
            => checkRateLimit(requestTimestamps, t)
  /\ checkRateLimit(requestTimestamps, now + OneHour)

\* a request was rejected by the minute limit, and a request that arrives when the
\* recorded timestamp is exactly 60 seconds old is admitted
C30_Witness ==
  /\ lastResult.cause = "rateLimited"
  /\ Len(requestTimestamps) = 1
  /\ Len(requestTimestamps) < maxRequestsPerHour
  /\ \E d \in Delays :
       /\ now + d - requestTimestamps[1] = OneMinute
       /\ checkRateLimit(requestTimestamps, now + d)

\* the like rows of user u on post p
LikeRows(u, p) ==
  Len(SelectSeq(likes, LAMBDA row : row.user_id = u /\ row.post_id = p))

\* post p is there and no DELETE /:id is at work on it
PostUntouched(p) ==
  /\ \E row \in posts : row.id = p
  /\ \A r \in Slots : ~(postReq[r].route = "delete" /\ postReq[r].post = p)

\* C31: there is never more than one like row per (user, post), and when the like
\* requests of a user on a post are done, overlapping or not, the post is liked by
\* the user exactly when their number is odd
C31_LikeIsToggle ==
  \A u \in Users, p \in PostIds :
    /\ LikeRows(u, p) <= 1
    /\ PostUntouched(p) /\ InFlightFor("like", u, p) = {}
         => (LikeRows(u, p) = 1 <=> likeDone[u][p] = 1)

\* C32: DELETE /:id by a user who does not own the post, or for a post that is not
\* there, answers 404 and leaves posts, likes and comments as they are; rows of a
\* post are removed only by a DELETE /:id of its owner
C32_OnlyOwnerDeletes ==
  [][ /\ \A r \in Slots :
           /\ DeleteGet(r)
           /\ ~\E row \in posts : row.id = postReq[r].post /\ row.user_id = postReq[r].user
           => /\ postResponse'.status = 404
              /\ postReq'[r] = NoPostReq
              /\ UNCHANGED << posts, likes, comments >>
      /\ \A row \in posts \ posts' :
           \E r \in Slots : /\ postReq[r].route = "delete"
                            /\ postReq[r].user = row.user_id
                            /\ postReq[r].post = row.id
      /\ \A r \in Slots :
           DeleteLikes(r) \/ DeleteComments(r) =>
             \A row \in posts : row.id = postReq[r].post => row.user_id = postReq[r].user
    ]_vars

\* a user who does not own the post asked for its deletion and got 404, and the
\* post, a like and a comment of it are there
C32_Witness ==
  /\ postResponse.route = "delete"
  /\ postResponse.status = 404
  /\ \E row \in posts : row.id = postResponse.post /\ row.user_id # postResponse.user
  /\ \E k \in 1..Len(likes) : likes[k].post_id = postResponse.post
  /\ \E k \in 1..Len(comments) : comments[k].post_id = postResponse.post

\* C33: no like row and no comment row refers to a post id whose deletion was
\* answered 'Post deleted successfully'
C33_NoRowsOfDeletedPost ==
  \A p \in deletedOk :
    /\ \A k \in 1..Len(likes) : likes[k].post_id # p
    /\ \A k \in 1..Len(comments) : comments[k].post_id # p

\* C34: GET /me with the token of a registered user is answered by the handler
\* 'Get current user' with that user's own record
C34_MeIsCurrentUser ==
  usersResponse.segment = "me" /\ usersResponse.user \in Users =>
    /\ usersResponse.handler = "getCurrentUser"
    /\ usersResponse.status = 200
    /\ usersResponse.record = usersResponse.user

\* C35: while a caption request of the dialog is in flight, isGeneratingCaption is
\* true and the AI button is disabled, so at most one request is in flight; when
\* none is in flight, isGeneratingCaption is false and the button is enabled as soon
\* as an image is selected
C35_OneRequestInFlight ==
  /\ Len(inFlight) <= 1
  /\ inFlight # <<>> => isGeneratingCaption /\ ButtonDisabled
  /\ inFlight = <<>> => ~isGeneratingCaption /\ (image # NoFile => ~ButtonDisabled)

\* a request has settled with an error and the button is enabled again
C35_Witness ==
  /\ inFlight = <<>>
  /\ captionError = DefaultCaptionError
  /\ ~isGeneratingCaption
  /\ ~ButtonDisabled

====
